---- MODULE Spec2Model ----
(***************************************************************************)
(* Macro risk dashboard: the signal engine (signals.py), the data          *)
(* acquisition with its fallback chain (data_sources.py) and the           *)
(* time-bounded memoization with the refresh button (app.py).              *)
(*                                                                         *)
(* Floats are exact rationals n/d with d > 0; NaN and None are separate    *)
(* values.  A pandas Series is a sequence of floats, oldest first.         *)
(***************************************************************************)
EXTENDS Integers, Sequences, FiniteSets, TLC

VARIABLES
    fn, arg, ret,                       \* one call of a signals.py function
    idx, series, rows, total_score,     \* build_metrics_table: loop position and locals
    regime_label,
    pc, sidx, tidx,                     \* get_all_data: position, FRED and ticker loop indices
    api_key, contacted, result,         \* the running fetch: credential, responses seen, return value
    data, out, raised,                  \* get_all_data's data, fetch_yfinance_tickers' out, escaped exception
    now,                                \* wall clock, seconds
    memo_all, memo_fred, memo_yf,       \* st.cache_data entries of the three decorated functions
    served, fetched, last_op            \* last render: age of each Series, identifiers fetched, trigger

unitVars == <<fn, arg, ret>>
tableVars == <<idx, series, rows, total_score, regime_label>>
signalVars == <<fn, arg, ret, idx, series, rows, total_score, regime_label>>
fetchVars == <<pc, sidx, tidx, api_key, contacted, result, data, out, raised>>
cacheVars == <<now, memo_all, memo_fred, memo_yf, served, fetched, last_op>>
vars == <<signalVars, fetchVars, cacheVars>>

-----------------------------------------------------------------------------
(* Values *)

Num(n, d) == [tag |-> "num", n |-> n, d |-> d]
NaN == [tag |-> "nan", n |-> 0, d |-> 1]
None == [tag |-> "none", n |-> 0, d |-> 1]
Tenths(n) == Num(n, 10)

Abs(k) == IF k < 0 THEN 0 - k ELSE k
RECURSIVE Gcd(_, _)
Gcd(a, b) == IF b = 0 THEN a ELSE Gcd(b, a % b)
\* the float n/d for d /= 0, in lowest terms with a positive denominator
Rat(n, d) ==
    LET g == Gcd(Abs(n), Abs(d))
    IN  IF d > 0 THEN Num(n \div g, d \div g) ELSE Num((0 - n) \div g, (0 - d) \div g)

IsNum(x) == x.tag = "num"
\* x < k, x <= k, x >= k, x > k for a float x and an integer k
LtInt(x, k) == x.n < k * x.d
LeInt(x, k) == x.n <= k * x.d
GeInt(x, k) == x.n >= k * x.d
GtInt(x, k) == x.n > k * x.d

\* a value a mapping can hold: a Series, None, or an object that is no Series
PySeries(obs) == [kind |-> "Series", obs |-> obs]
PyNone == [kind |-> "None", obs |-> <<>>]
PyOther == [kind |-> "Other", obs |-> <<>>]

-----------------------------------------------------------------------------
(* signals.py *)

TRADING_DAYS_4W == 20

\* the second band starting one too high
REGIMES_gap == <<
    [lo |-> 0, hi |-> 4, label |-> "Expansion"],
    [lo |-> 6, hi |-> 8, label |-> "Late Cycle"],
    [lo |-> 9, hi |-> 14, label |-> "Stress Building"],
    [lo |-> 15, hi |-> 999, label |-> "Crisis"] >>

REGIMES == <<
    [lo |-> 0, hi |-> 4, label |-> "Expansion"],
    [lo |-> 5, hi |-> 8, label |-> "Late Cycle"],
    [lo |-> 9, hi |-> 14, label |-> "Stress Building"],
    [lo |-> 15, hi |-> 999, label |-> "Crisis"] >>

\* (new - old) / old * 100 for old /= 0
PctOf(old, new) ==
    Rat((new.n * old.d - old.n * new.d) * 100, new.d * old.n)

_pct_change_4w(s, last_n) ==
    IF s.kind = "None" \/ Len(s.obs) < 2 \/ last_n >= Len(s.obs) THEN None
    ELSE LET recent == SubSeq(s.obs, Len(s.obs) - last_n + 1, Len(s.obs))
             old == recent[1]
             new == recent[Len(recent)]
         IN  IF old = NaN \/ old.n = 0 THEN None
             ELSE IF new = NaN THEN NaN
             ELSE PctOf(old, new)

trend_arrow(pct) ==
    IF pct = None \/ pct = NaN THEN "no-data"
    ELSE IF GtInt(pct, 2) THEN "up"
    ELSE IF LtInt(pct, -2) THEN "down"
    ELSE "flat"

\* the yellow band exclusive at its upper end
flag_hy_oas_exclusive(value) ==
    IF value = None \/ value = NaN THEN 1
    ELSE IF LtInt(value, 4) THEN 0
    ELSE IF LtInt(value, 6) THEN 1
    ELSE 2

flag_hy_oas(value) ==
    IF value = None \/ value = NaN THEN 1
    ELSE IF LtInt(value, 4) THEN 0
    ELSE IF LeInt(value, 6) THEN 1
    ELSE 2

flag_vix(value) ==
    IF value = None \/ value = NaN THEN 1
    ELSE IF LtInt(value, 20) THEN 0
    ELSE IF LeInt(value, 30) THEN 1
    ELSE 2

\* exactly -6 counted as red, as the docstring's "red <=-6%" reads
flag_etf_4w_red_at_6(pct) ==
    IF pct = None \/ pct = NaN THEN 1
    ELSE IF GeInt(pct, -2) THEN 0
    ELSE IF GtInt(pct, -6) THEN 1
    ELSE 2

flag_etf_4w(pct) ==
    IF pct = None \/ pct = NaN THEN 1
    ELSE IF GeInt(pct, -2) THEN 0
    ELSE IF GeInt(pct, -6) THEN 1
    ELSE 2

flag_label(flag) ==
    IF flag = 0 THEN "Green" ELSE IF flag = 1 THEN "Yellow" ELSE "Red"

METRIC_CONFIG == <<
    [section |-> "Credit Risk", display_name |-> "HY OAS (BAML)", key |-> "BAMLH0A0HYM2", flag_type |-> "hy_oas", note_hint |-> ""],
    [section |-> "Credit Risk", display_name |-> "HYG", key |-> "HYG", flag_type |-> "etf_4w", note_hint |-> ""],
    [section |-> "Credit Risk", display_name |-> "JNK", key |-> "JNK", flag_type |-> "etf_4w", note_hint |-> ""],
    [section |-> "Volatility", display_name |-> "VIX", key |-> "^VIX", flag_type |-> "vix", note_hint |-> ""],
    [section |-> "Liquidity/Dollar", display_name |-> "Fed Balance Sheet (WALCL)", key |-> "WALCL", flag_type |-> "etf_4w", note_hint |-> "4W % chg"],
    [section |-> "Liquidity/Dollar", display_name |-> "UUP (Dollar)", key |-> "UUP", flag_type |-> "etf_4w", note_hint |-> ""],
    [section |-> "Rates & Growth", display_name |-> "SPY", key |-> "SPY", flag_type |-> "etf_4w", note_hint |-> ""],
    [section |-> "Tail Risk", display_name |-> "XLF", key |-> "XLF", flag_type |-> "etf_4w", note_hint |-> ""],
    [section |-> "Tail Risk", display_name |-> "KRE", key |-> "KRE", flag_type |-> "etf_4w", note_hint |-> ""] >>

\* an empty Series read as 0.0 instead of None
CurrentOf_zero(s) ==
    IF s.kind /= "Series" THEN None
    ELSE IF Len(s.obs) > 0 THEN s.obs[Len(s.obs)] ELSE Tenths(0)

\* the loop's locals current and pct_4w for the value data.get(key) returned
CurrentOf(s) ==
    IF s.kind /= "Series" THEN None
    ELSE IF Len(s.obs) > 0 THEN s.obs[Len(s.obs)] ELSE None

Pct4wOf(s) ==
    IF s.kind /= "Series" THEN None ELSE _pct_change_4w(s, TRADING_DAYS_4W)

FlagOf(flag_type, current, pct_4w) ==
    IF flag_type = "hy_oas" THEN flag_hy_oas(current)
    ELSE IF flag_type = "vix" THEN flag_vix(current)
    ELSE flag_etf_4w(pct_4w)

\* the formatted current value: the format applied and the number it is applied to
CurrentStr(key, current) ==
    IF current /= None /\ current /= NaN
    THEN IF key /= "WALCL" THEN <<".2f", current>> ELSE <<",.0f", current>>
    ELSE <<"em-dash">>

\* the score overwritten instead of accumulated
AddScore_overwrite(total, flag) == flag

\* total_score += flag
AddScore(total, flag) == total + flag

RowOf(m, s) ==
    LET current == CurrentOf(s)
        pct_4w == Pct4wOf(s)
    IN  [Section |-> m.section,
         Metric |-> m.display_name,
         Current |-> CurrentStr(m.key, current),
         Trend |-> trend_arrow(pct_4w),
         Flag |-> flag_label(FlagOf(m.flag_type, current, pct_4w)),
         Notes |-> m.note_hint]

RECURSIVE RegimeLookup(_, _)
RegimeLookup(score, k) ==
    IF k > Len(REGIMES) THEN "Unknown"
    ELSE IF REGIMES[k].lo <= score /\ score <= REGIMES[k].hi THEN REGIMES[k].label
    ELSE RegimeLookup(score, k + 1)

RegimeLabel(score) == RegimeLookup(score, 1)

-----------------------------------------------------------------------------
(* data_sources.py *)

FRED_SERIES == <<"BAMLH0A0HYM2", "WALCL">>
YF_TICKERS == <<"HYG", "JNK", "SPY", "XLF", "KRE", "UUP", "^VIX">>

Range(f) == {f[i] : i \in DOMAIN f}
AllIds == Range(FRED_SERIES) \cup Range(YF_TICKERS)

EmptySeries == PySeries(<<>>)                  \* pd.Series(dtype=float)
EmptyDict == [k \in {} |-> EmptySeries]        \* {}
HasObs(s) == Len(s.obs) > 0

\* A response of a provider: an exception of the call ("raise": transport or
\* HTTP status, "timeout"), a body that cannot be parsed ("malformed"), a body
\* without the header line the CSV paths look for ("no_header"), yfinance's
\* "none", "empty" and "no_close" frames, or "ok" with its rows as sent.
Response(kind, rws) == [kind |-> kind, rows |-> rws]
Dot == [tag |-> "dot", n |-> 0, d |-> 1]       \* the cell "." of a missing value

\* whether an except clause catches the exception exc
ExceptException(exc) == TRUE

\* whether the request or the parsing of resp throws
Throws(resp) == resp.kind \in {"raise", "timeout", "malformed"}

\* rows in ascending date order (sort_index)
RECURSIVE SortIndex(_)
SortIndex(rws) ==
    IF rws = <<>> THEN <<>>
    ELSE LET k == CHOOSE i \in 1..Len(rws) : \A j \in 1..Len(rws) : rws[i].date <= rws[j].date
             rest == [i \in 1..(Len(rws) - 1) |-> IF i < k THEN rws[i] ELSE rws[i + 1]]
         IN  <<rws[k]>> \o SortIndex(rest)

IsNumRow(r) == IsNum(r.value)
Values(rws) == [i \in 1..Len(rws) |-> rws[i].value]

_get_fred_api_key(secrets, env) ==
    LET Strip(s) == IF s = "  " THEN "" ELSE s
    IN  IF secrets \notin {"<raises>", "<absent>", "<not a str>", ""}
        THEN Strip(secrets)
        ELSE Strip(env)

_parse_fred_csv(rws) == PySeries(Values(SelectSeq(SortIndex(rws), IsNumRow)))

_fetch_fred_via_api(resp) ==
    IF Throws(resp) THEN EmptySeries
    ELSE IF resp.rows = <<>> THEN EmptySeries
    ELSE LET kept == SelectSeq(resp.rows, IsNumRow)
         IN  IF kept = <<>> THEN EmptySeries
             ELSE PySeries(Values(SortIndex(kept)))

\* what the body of a CSV path's try block reaches for a response that does not throw
CsvSeries(resp) ==
    IF resp.kind = "ok" THEN _parse_fred_csv(resp.rows) ELSE EmptySeries

\* a path's result returned whether or not it holds observations
PathSucceeded_unchecked(s) == TRUE

\* `if len(s) > 0: return s` after a path
PathSucceeded(s) == HasObs(s)

\* an except clause that lets a timeout through
YfExcept_narrow(exc) == exc /= "timeout"

\* the per-ticker `except Exception`
YfExcept(exc) == TRUE

\* one ticker's entry of out for a response that does not throw
TickerSeries(resp) ==
    IF resp.kind = "ok"
    THEN PySeries(Values(SortIndex(resp.rows)))
    ELSE EmptySeries

-----------------------------------------------------------------------------
(* Responses drawn for the providers *)

MaxObs == 2             \* most rows in a provider's payload

\* k rows, latest date first, the first cell missing when miss
Payload(k, base, miss) ==
    [i \in 1..k |-> [date |-> k + 1 - i,
                     value |-> IF miss /\ i = 1 THEN Dot ELSE Tenths(base + i)]]

Payloads(base) == {Payload(k, base, miss) : k \in 0..MaxObs, miss \in BOOLEAN}

ApiResponses ==
    {Response(k, <<>>) : k \in {"raise", "timeout", "malformed"}}
    \cup {Response("ok", p) : p \in Payloads(40)}
CsvResponses ==
    {Response(k, <<>>) : k \in {"raise", "timeout", "malformed"}}
    \cup {Response(k, p) : k \in {"ok", "no_header"}, p \in Payloads(50)}
MirrorResponses ==
    {Response(k, <<>>) : k \in {"raise", "timeout", "malformed"}}
    \cup {Response(k, p) : k \in {"ok", "no_header"}, p \in Payloads(60)}
YfResponses ==
    {Response(k, <<>>) : k \in {"raise", "timeout", "none", "empty", "no_close"}}
    \cup {Response("ok", Payload(2, 70, FALSE))}
SecretsValues == {"<raises>", "<absent>", "<not a str>", "", "  ", "key"}
EnvValues == {"", "  ", "key"}

-----------------------------------------------------------------------------
(* get_all_data on empty memos: fetch_fred_series per series id, one fetch  *)
(* path per step, then fetch_yfinance_tickers, one ticker per step          *)

\* no entry under a key of the memo
NoEntry == <<>>

CacheIdle ==
    /\ now = 0
    /\ memo_all = NoEntry
    /\ memo_fred = [sid \in Range(FRED_SERIES) |-> NoEntry]
    /\ memo_yf = NoEntry
    /\ served = [id \in AllIds |-> 0]
    /\ fetched = {}
    /\ last_op = "none"

FetchIdle ==
    /\ pc = "idle" /\ sidx = 1 /\ tidx = 1 /\ api_key = ""
    /\ contacted = <<>> /\ result = <<>>
    /\ data = EmptyDict /\ out = EmptyDict /\ raised = FALSE

SignalsIdle ==
    /\ fn = "none" /\ arg = PyNone /\ ret = <<>>
    /\ idx = 0 /\ series = PyNone /\ rows = <<>> /\ total_score = 0
    /\ regime_label = "unset"

InitFetch ==
    /\ SignalsIdle /\ CacheIdle
    /\ pc = "fred_begin" /\ sidx = 1 /\ tidx = 1 /\ api_key = ""
    /\ contacted = <<>> /\ result = <<>>
    /\ data = EmptyDict /\ out = EmptyDict /\ raised = FALSE

\* fetch_fred_series returns s to get_all_data's loop
FredReturn(s) ==
    /\ result' = <<s>>
    /\ data' = (FRED_SERIES[sidx] :> s) @@ data
    /\ sidx' = sidx + 1
    /\ pc' = IF sidx = Len(FRED_SERIES) THEN "yf_begin" ELSE "fred_begin"
    /\ raised' = raised

\* an exception leaves get_all_data
Escapes ==
    /\ raised' = TRUE /\ pc' = "raised"
    /\ UNCHANGED <<sidx, result, data>>

FredBegin ==
    /\ pc = "fred_begin"
    /\ \E secrets \in SecretsValues, env \in EnvValues :
        /\ api_key' = _get_fred_api_key(secrets, env)
        /\ pc' = IF api_key' /= "" THEN "api" ELSE "csv"
    /\ contacted' = <<>> /\ result' = <<>>
    /\ UNCHANGED <<sidx, tidx, data, out, raised, signalVars, cacheVars>>

FredApi ==
    /\ pc = "api"
    /\ \E resp \in ApiResponses :
        LET s == _fetch_fred_via_api(resp) IN
        /\ contacted' = Append(contacted, [path |-> "api", resp |-> resp])
        /\ IF PathSucceeded(s) THEN FredReturn(s)
           ELSE pc' = "csv" /\ UNCHANGED <<sidx, result, data, raised>>
    /\ UNCHANGED <<tidx, api_key, out, signalVars, cacheVars>>

FredCsv ==
    /\ pc = "csv"
    /\ \E resp \in CsvResponses :
        /\ contacted' = Append(contacted, [path |-> "csv", resp |-> resp])
        /\ IF Throws(resp)
           THEN IF ExceptException(resp.kind)
                THEN pc' = "mirror" /\ UNCHANGED <<sidx, result, data, raised>>
                ELSE Escapes
           ELSE IF PathSucceeded(CsvSeries(resp)) THEN FredReturn(CsvSeries(resp))
           ELSE pc' = "mirror" /\ UNCHANGED <<sidx, result, data, raised>>
    /\ UNCHANGED <<tidx, api_key, out, signalVars, cacheVars>>

FredMirror ==
    /\ pc = "mirror"
    /\ \E resp \in MirrorResponses :
        /\ contacted' = Append(contacted, [path |-> "mirror", resp |-> resp])
        /\ IF Throws(resp)
           THEN IF ExceptException(resp.kind) THEN FredReturn(EmptySeries) ELSE Escapes
           ELSE IF PathSucceeded(CsvSeries(resp)) THEN FredReturn(CsvSeries(resp))
           ELSE FredReturn(EmptySeries)
    /\ UNCHANGED <<tidx, api_key, out, signalVars, cacheVars>>

YfBegin ==
    /\ pc = "yf_begin"
    /\ out' = EmptyDict /\ tidx' = 1
    /\ contacted' = <<>> /\ result' = <<>>
    /\ pc' = "yf"
    /\ UNCHANGED <<sidx, api_key, data, raised, signalVars, cacheVars>>

YfTicker ==
    /\ pc = "yf" /\ tidx <= Len(YF_TICKERS)
    /\ \E resp \in YfResponses :
        /\ contacted' = <<[path |-> "yfinance", resp |-> resp]>>
        /\ IF Throws(resp) /\ ~YfExcept(resp.kind)
           THEN /\ raised' = TRUE /\ pc' = "raised"
                /\ UNCHANGED <<tidx, out>>
           ELSE /\ out' = (YF_TICKERS[tidx] :>
                              (IF Throws(resp) THEN EmptySeries ELSE TickerSeries(resp))) @@ out
                /\ tidx' = tidx + 1
                /\ UNCHANGED <<pc, raised>>
    /\ UNCHANGED <<sidx, api_key, result, data, signalVars, cacheVars>>

Update ==
    /\ pc = "yf" /\ tidx > Len(YF_TICKERS)
    /\ data' = out @@ data
    /\ pc' = "done"
    /\ UNCHANGED <<sidx, tidx, api_key, contacted, result, out, raised, signalVars, cacheVars>>

NextFetch ==
    \/ FredBegin
    \/ FredApi
    \/ FredCsv
    \/ FredMirror
    \/ YfBegin
    \/ YfTicker
    \/ Update

SpecFetch == InitFetch /\ [][NextFetch]_vars

-----------------------------------------------------------------------------
(* st.cache_data(ttl=CACHE_TTL_SECONDS) around get_all_data, fetch_fred_series *)
(* and fetch_yfinance_tickers; app.py's render and its "Refresh data" button.  *)
(* A Series is stood for by the time its provider was asked for it.            *)

CACHE_TTL_SECONDS == 900
MaxTime == 2400         \* the clock stops here
TickSeconds == 300      \* the clock's step

Entry(t, v) == <<[created |-> t, value |-> v]>>
\* the entry e is served at time t: it exists and is younger than the ttl
Fresh(e, t) == e /= NoEntry /\ t - e[1].created < CACHE_TTL_SECONDS

\* the memoized fetch_fred_series(sid) at time t: its entry afterwards
FredEntryAfter(mFred, sid, t) ==
    IF Fresh(mFred[sid], t) THEN mFred[sid] ELSE Entry(t, t)

\* the memoized fetch_yfinance_tickers(YF_TICKERS) at time t: its entry afterwards
YfEntryAfter(mYf, t) ==
    IF Fresh(mYf, t) THEN mYf ELSE Entry(t, [tk \in Range(YF_TICKERS) |-> t])

\* the body of get_all_data at time t on the memos of the two inner functions
GetAllDataBody(mFred, mYf, t) ==
    LET fredData == [sid \in Range(FRED_SERIES) |-> FredEntryAfter(mFred, sid, t)[1].value]
        yf_data == YfEntryAfter(mYf, t)[1].value
    IN  yf_data @@ fredData

\* the memoized get_all_data() at time t: the memos afterwards, the mapping
\* returned and the identifiers whose provider was asked
GetAllData(mAll, mFred, mYf, t) ==
    IF Fresh(mAll, t)
    THEN [all |-> mAll, fred |-> mFred, yf |-> mYf,
          value |-> mAll[1].value, asked |-> {}]
    ELSE [all |-> Entry(t, GetAllDataBody(mFred, mYf, t)),
          fred |-> [sid \in Range(FRED_SERIES) |-> FredEntryAfter(mFred, sid, t)],
          yf |-> YfEntryAfter(mYf, t),
          value |-> GetAllDataBody(mFred, mYf, t),
          asked |-> {sid \in Range(FRED_SERIES) : ~Fresh(mFred[sid], t)}
                    \cup (IF Fresh(mYf, t) THEN {} ELSE Range(YF_TICKERS))]

\* the age at time t of each Series of the mapping value
Ages(value, t) == [id \in AllIds |-> t - value[id]]

\* f.clear(): the memo of a decorated function f without its entries
Cleared(memo) == [k \in DOMAIN memo |-> NoEntry]

InitCache == SignalsIdle /\ FetchIdle /\ CacheIdle

\* a page load or rerun without the button: data = get_all_data()
Render ==
    /\ LET r == GetAllData(memo_all, memo_fred, memo_yf, now) IN
        /\ memo_all' = r.all /\ memo_fred' = r.fred /\ memo_yf' = r.yf
        /\ served' = Ages(r.value, now)
        /\ fetched' = r.asked
    /\ last_op' = "render"
    /\ UNCHANGED <<now, signalVars, fetchVars>>

\* the button: get_all_data.clear(), fetch_fred_series.clear(), st.rerun(),
\* and the rerun's data = get_all_data()
Refresh ==
    /\ LET r == GetAllData(Cleared(<<memo_all>>)[1], Cleared(memo_fred), memo_yf, now) IN
        /\ memo_all' = r.all /\ memo_fred' = r.fred /\ memo_yf' = r.yf
        /\ served' = Ages(r.value, now)
        /\ fetched' = r.asked
    /\ last_op' = "refresh"
    /\ UNCHANGED <<now, signalVars, fetchVars>>

Tick ==
    /\ now + TickSeconds <= MaxTime
    /\ now' = now + TickSeconds
    /\ UNCHANGED <<memo_all, memo_fred, memo_yf, served, fetched, last_op,
                   signalVars, fetchVars>>

NextCache == Render \/ Refresh \/ Tick

SpecCache == InitCache /\ [][NextCache]_vars

-----------------------------------------------------------------------------
(* Inputs *)

MaxLen == 22            \* longest series handed to _pct_change_4w
MaxTenths == 310        \* largest float argument, in tenths
MaxNegTenths == 70      \* smallest float argument is -MaxNegTenths tenths

Filler == Tenths(500)
OldVals == {Tenths(1000), Tenths(0), Tenths(-400), NaN}
NewVals == {Tenths(1100), Tenths(940), NaN}

\* n observations whose last is new and whose 20th from the end is old
Window(n, old, new) ==
    [i \in 1..n |-> IF i = n THEN new
                    ELSE IF i = n - TRADING_DAYS_4W + 1 THEN old
                    ELSE Filler]

\* n >= 2 observations rising evenly from lo to hi
Ramp(n, lo, hi) ==
    [i \in 1..n |-> Num(lo * (n - 1) + (hi - lo) * (i - 1), n - 1)]

FloatArgs ==
    {None, NaN} \cup {Tenths(n) : n \in (0 - MaxNegTenths)..MaxTenths}

SeriesArgs ==
    {PyNone}
    \cup {PySeries(Window(n, o, w)) : n \in 0..MaxLen, o \in OldVals, w \in NewVals}
    \cup {PySeries(Ramp(n, 100, 110)) : n \in 2..MaxLen}

\* what data.get(key) can return: None (key absent), a non-Series object, an
\* empty Series, a 20-point Series, and 21-point Series
ShortSeries == PySeries(Window(20, Tenths(50), Tenths(50)))         \* 20 points ending at 5.0
LevelRedSeries == PySeries(Window(21, Tenths(350), Tenths(350)))    \* 35.0, 4W change 0
PctRedSeries == PySeries(Window(21, Tenths(40), Tenths(35)))        \* 3.5, 4W change -12.5

DataValues ==
    {PyNone, PyOther, PySeries(<<>>),
     ShortSeries, LevelRedSeries, PctRedSeries}

-----------------------------------------------------------------------------
(* One call of a signals.py function on an argument drawn at Init *)

InitUnit ==
    /\ fn \in {"_pct_change_4w", "flag_hy_oas", "flag_vix", "flag_etf_4w"}
    /\ arg \in IF fn = "_pct_change_4w" THEN SeriesArgs ELSE FloatArgs
    /\ ret = <<>>
    /\ idx = 0 /\ series = PyNone /\ rows = <<>> /\ total_score = 0
    /\ regime_label = "unset"

CallPctChange4w ==
    /\ fn = "_pct_change_4w" /\ ret = <<>>
    /\ ret' = <<_pct_change_4w(arg, TRADING_DAYS_4W)>>
    /\ UNCHANGED <<fn, arg, tableVars, fetchVars, cacheVars>>

CallFlagHyOas ==
    /\ fn = "flag_hy_oas" /\ ret = <<>>
    /\ ret' = <<flag_hy_oas(arg)>>
    /\ UNCHANGED <<fn, arg, tableVars, fetchVars, cacheVars>>

CallFlagVix ==
    /\ fn = "flag_vix" /\ ret = <<>>
    /\ ret' = <<flag_vix(arg)>>
    /\ UNCHANGED <<fn, arg, tableVars, fetchVars, cacheVars>>

CallFlagEtf4w ==
    /\ fn = "flag_etf_4w" /\ ret = <<>>
    /\ ret' = <<flag_etf_4w(arg)>>
    /\ UNCHANGED <<fn, arg, tableVars, fetchVars, cacheVars>>

-----------------------------------------------------------------------------
(* build_metrics_table: one loop iteration per step, then the regime lookup. *)
(* Each key is read once, so the mapping is drawn key by key as it is read.  *)

NMetrics == Len(METRIC_CONFIG)

InitTable ==
    /\ fn = "build_metrics_table" /\ arg = PyNone /\ ret = <<>>
    /\ idx = 0 /\ series = PyNone /\ rows = <<>> /\ total_score = 0
    /\ regime_label = "unset"

MetricRow ==
    /\ fn = "build_metrics_table"
    /\ idx < NMetrics
    /\ \E s \in DataValues :
        LET m == METRIC_CONFIG[idx + 1] IN
        /\ series' = s
        /\ total_score' = AddScore(total_score, FlagOf(m.flag_type, CurrentOf(s), Pct4wOf(s)))
        /\ rows' = Append(rows, RowOf(m, s))
    /\ idx' = idx + 1
    /\ UNCHANGED <<regime_label, unitVars, fetchVars, cacheVars>>

RegimeStep ==
    /\ fn = "build_metrics_table"
    /\ idx = NMetrics /\ regime_label = "unset"
    /\ regime_label' = RegimeLabel(total_score)
    /\ UNCHANGED <<idx, series, rows, total_score, unitVars, fetchVars, cacheVars>>

InitSignals == (InitUnit \/ InitTable) /\ FetchIdle /\ CacheIdle

NextSignals ==
    \/ CallPctChange4w
    \/ CallFlagHyOas
    \/ CallFlagVix
    \/ CallFlagEtf4w
    \/ MetricRow
    \/ RegimeStep

SpecSignals == InitSignals /\ [][NextSignals]_vars

-----------------------------------------------------------------------------
(* Properties of the signal engine, checked under SpecSignals *)

Returned == ret /= <<>>
TableDone == fn = "build_metrics_table" /\ regime_label /= "unset"
FlagValue(label) == IF label = "Green" THEN 0 ELSE IF label = "Yellow" THEN 1 ELSE 2

RECURSIVE SumFlags(_, _)
SumFlags(rs, k) == IF k = 0 THEN 0 ELSE FlagValue(rs[k].Flag) + SumFlags(rs, k - 1)

\* r = (last - first) / first * 100
IsPctChange(r, first, last) ==
    /\ IsNum(r)
    /\ r.n * (first.n * last.d) = r.d * 100 * (last.n * first.d - first.n * last.d)

\* C2: _pct_change_4w of n observations is undefined for n < 20; for n >= 20,
\* exactly 20 included, it is (last - first) / first * 100 over the last 20
\* observations when the first of them is defined and nonzero (10.0 for 20
\* points rising from 100 to 110), and undefined when it is zero or undefined.
C2_PctChangeFrom20Points ==
    (fn = "_pct_change_4w" /\ Returned /\ arg.kind = "Series") =>
        LET n == Len(arg.obs) IN
        IF n < 20 THEN ret[1] = None
        ELSE LET first == arg.obs[n - 19]
                 last == arg.obs[n]
             IN  IF first = NaN \/ first.n = 0 THEN ret[1] = None
                 ELSE IsNum(last) => IsPctChange(ret[1], first, last)

\* C2, what the code does: the same with 21 observations as the least length.
C2_PctChangeFrom21Points ==
    (fn = "_pct_change_4w" /\ Returned /\ arg.kind = "Series") =>
        LET n == Len(arg.obs) IN
        IF n < 21 THEN ret[1] = None
        ELSE LET first == arg.obs[n - 19]
                 last == arg.obs[n]
             IN  IF first = NaN \/ first.n = 0 THEN ret[1] = None
                 ELSE IsNum(last) => IsPctChange(ret[1], first, last)

\* C5: every score 0..18 gets exactly one label, from the bands 0-4 Expansion,
\* 5-8 Late Cycle, 9-14 Stress Building, 15+ Crisis; exactly one band holds
\* the score and "Unknown" is never the label.
C5_RegimeBandsPartition ==
    TableDone =>
        /\ total_score \in 0..18
        /\ Cardinality({k \in 1..Len(REGIMES) :
                REGIMES[k].lo <= total_score /\ total_score <= REGIMES[k].hi}) = 1
        /\ regime_label = (IF total_score <= 4 THEN "Expansion"
                           ELSE IF total_score <= 8 THEN "Late Cycle"
                           ELSE IF total_score <= 14 THEN "Stress Building"
                           ELSE "Crisis")
        /\ regime_label /= "Unknown"

C5_Witness == TableDone /\ total_score = 5 /\ regime_label = "Late Cycle"

\* C6: flag_hy_oas is 0 below 4, 1 from 4 to 6 inclusive, 2 above 6 and 1 for
\* an undefined value; flag_vix the same with 20 and 30; always in {0,1,2}.
C6_LevelFlags ==
    /\ (fn = "flag_hy_oas" /\ Returned) =>
        /\ ret[1] \in {0, 1, 2}
        /\ ret[1] = (IF ~IsNum(arg) THEN 1
                     ELSE IF arg.n < 40 THEN 0
                     ELSE IF arg.n <= 60 THEN 1 ELSE 2)
    /\ (fn = "flag_vix" /\ Returned) =>
        /\ ret[1] \in {0, 1, 2}
        /\ ret[1] = (IF ~IsNum(arg) THEN 1
                     ELSE IF arg.n < 200 THEN 0
                     ELSE IF arg.n <= 300 THEN 1 ELSE 2)

C6_Witness == fn = "flag_hy_oas" /\ arg = Tenths(60) /\ Returned /\ ret[1] = 1

\* the percent-change rule on an optional float p
EtfRule(p) ==
    IF ~IsNum(p) THEN 1
    ELSE IF p.n >= (0 - 2) * p.d THEN 0
    ELSE IF p.n >= (0 - 6) * p.d THEN 1 ELSE 2

C8_NineRowsScoreIsSum ==
    TableDone =>
        /\ Len(rows) = 9
        /\ \A k \in 1..9 :
            /\ rows[k].Metric = METRIC_CONFIG[k].display_name
            /\ rows[k].Section = METRIC_CONFIG[k].section
            /\ rows[k].Flag \in {"Green", "Yellow", "Red"}
        /\ total_score = SumFlags(rows, 9)
        /\ total_score \in 0..18

C8_Witness == TableDone /\ total_score = 18 /\ Len(rows) = 9

Undefined(s) == s.kind /= "Series" \/ s.obs = <<>>

UndefinedRowIsCaution ==
    (fn = "build_metrics_table" /\ idx >= 1 /\ Undefined(series)) =>
        /\ rows[idx].Flag = "Yellow"
        /\ rows[idx].Current = <<"em-dash">>
        /\ rows[idx].Trend = "no-data"

AllRowsUndefined == \A k \in 1..Len(rows) : rows[k].Current = <<"em-dash">>

\* C9 as claimed: a metric whose identifier is missing or maps to an empty
\* Series gets flag 1 (Yellow), the em-dash as current value and the no-data
\* trend marker; with all nine so, the score is 9 and the regime "Late Cycle".
C9_AllUndefinedIsLateCycle ==
    /\ UndefinedRowIsCaution
    /\ (TableDone /\ AllRowsUndefined) =>
        /\ \A k \in 1..Len(rows) : rows[k].Flag = "Yellow"
        /\ total_score = 9
        /\ regime_label = "Late Cycle"

\* C9 amended: the same, with the regime of score 9 being "Stress Building",
\* the label of the band 9-14.
C9_AllUndefinedIsStressBuilding ==
    /\ UndefinedRowIsCaution
    /\ (TableDone /\ AllRowsUndefined) =>
        /\ \A k \in 1..Len(rows) : rows[k].Flag = "Yellow"
        /\ total_score = 9
        /\ regime_label = "Stress Building"

C9_Witness == TableDone /\ Undefined(series) /\ AllRowsUndefined /\ total_score = 9

-----------------------------------------------------------------------------
(* Properties of the data acquisition, checked under SpecFetch *)

\* the paths fetch_fred_series may contact, in order, given the credential
Chain(key) == IF key /= "" THEN <<"api", "csv", "mirror">> ELSE <<"csv", "mirror">>

\* the Series a contacted path produced
Yield(c) ==
    IF c.path = "api" THEN _fetch_fred_via_api(c.resp)
    ELSE IF Throws(c.resp) THEN EmptySeries
    ELSE CsvSeries(c.resp)

InFredCall == pc \in {"api", "csv", "mirror", "fred_begin", "yf_begin"}

\* C3: fetch_fred_series contacts API, CSV, mirror in that order, the API only
\* with a credential configured, a later path only after every earlier one
\* raised or yielded no observation, and returns the result of the first path
\* with at least one observation (the empty Series when there is none).
C3_FallbackOrder ==
    InFredCall =>
        LET n == Len(contacted) IN
        /\ n <= Len(Chain(api_key))
        /\ \A i \in 1..n : contacted[i].path = Chain(api_key)[i]
        /\ \A i \in 1..(n - 1) : ~HasObs(Yield(contacted[i]))
        /\ (result = <<>> /\ n > 0) => ~HasObs(Yield(contacted[n]))
        /\ result /= <<>> =>
            /\ n > 0
            /\ IF HasObs(Yield(contacted[n])) THEN result[1] = Yield(contacted[n])
               ELSE n = Len(Chain(api_key)) /\ result[1] = EmptySeries

C3_Witness ==
    /\ result /= <<>> /\ Len(contacted) = 3
    /\ contacted[1].resp = Response("ok", <<>>)
    /\ contacted[2].resp.kind = "timeout"
    /\ contacted[3].resp = Response("ok", Payload(2, 60, FALSE))
    /\ result[1] = PySeries(<<Tenths(62), Tenths(61)>>)

\* the entry of an identifier whose fetch has run is what its own responses give
EntryFromOwnResponses ==
    /\ (InFredCall /\ result /= <<>>) =>
        /\ data[FRED_SERIES[sidx - 1]] = result[1]
        /\ (\A i \in 1..Len(contacted) : ~HasObs(Yield(contacted[i])))
                => result[1] = EmptySeries
    /\ (pc = "yf" /\ tidx > 1) =>
        out[YF_TICKERS[tidx - 1]] =
            (IF contacted[1].resp.kind = "ok"
             THEN PySeries(Values(SortIndex(contacted[1].resp.rows)))
             ELSE EmptySeries)

AllNineSeries ==
    pc = "done" =>
        /\ DOMAIN data = AllIds
        /\ Cardinality(AllIds) = 9
        /\ \A id \in AllIds : data[id].kind = "Series"

\* a step leaves the entries of the identifiers fetched before it as they are
EntriesKept ==
    /\ \A id \in DOMAIN data : id \in DOMAIN data' /\ data'[id] = data[id]
    /\ \A id \in DOMAIN out : id \in DOMAIN out' /\ out'[id] = out[id]

\* C4: whatever each source answers, get_all_data returns without raising a
\* mapping of all nine identifiers to Series; an identifier whose fetch failed
\* maps to the empty Series and no fetch changes another identifier's Series.
C4_FailureIsolated ==
    /\ [](~raised /\ pc /= "raised" /\ AllNineSeries /\ EntryFromOwnResponses)
    /\ [][EntriesKept]_vars

C4_Witness ==
    /\ pc = "done"
    /\ data["BAMLH0A0HYM2"] = EmptySeries /\ HasObs(data["WALCL"])
    /\ data["HYG"] = EmptySeries /\ HasObs(data["JNK"]) /\ data["^VIX"] = EmptySeries

-----------------------------------------------------------------------------
(* Properties of the memoization, checked under SpecCache *)

\* C1: the render that follows "Refresh data" fetches every one of the nine
\* identifiers anew; no Series it shows comes from an entry made before.
C1_RefreshFetchesAllNine ==
    last_op = "refresh" =>
        /\ fetched = AllIds
        /\ \A id \in AllIds : served[id] = 0

\* C1, what the code does: the two FRED series are fetched anew.
C1_RefreshFetchesFred ==
    last_op = "refresh" =>
        /\ Range(FRED_SERIES) \subseteq fetched
        /\ \A id \in Range(FRED_SERIES) : served[id] = 0

\* C10: every Series a render shows was obtained from its provider at most
\* CACHE_TTL_SECONDS before that render.
C10_ServedWithinTtl ==
    last_op /= "none" => \A id \in AllIds : served[id] <= CACHE_TTL_SECONDS

====
